---------------------------- MODULE Spec2Model ----------------------------
(***************************************************************************)
(* Download-loop prevention for SABnzbd: the history file shared by the    *)
(* pre-queue script (admission check) and the post-processing script       *)
(* (completion report), the LockedFile accessor both go through, and the   *)
(* matching and decision logic of the two scripts.                         *)
(*                                                                         *)
(* Text is modelled as a sequence of tokens.  A token is one character     *)
(* ("a", "A", ".", " ", "|", a digit) or an atom that stands for a fixed   *)
(* run of characters never split by the program ("PENDING", "tv", "k",     *)
(* "LF" for os.linesep).  The history file is one flat token sequence, so  *)
(* that truncation, positioned writes and appends act on it as they act on *)
(* the bytes of the real file.                                             *)
(***************************************************************************)
EXTENDS Integers, Sequences, FiniteSets, TLC

(***************************************************************************)
(* Bounds of the model.                                                    *)
(***************************************************************************)
MaxTime == 2
MaxRuns == 4
ConcMaxTime == 2
ConcRuns == 2
SeedRuns == 1
MaxFaults == 1
TimeWindowSeconds == 2
RaceEpoch == 10

Procs == {1, 2}

LF == "LF"
SEP == "|"
Whitespace == {" ", LF}

(***************************************************************************)
(* Python's str(int) and int(str) on decimal text.                         *)
(***************************************************************************)
Digits == <<"0", "1", "2", "3", "4", "5", "6", "7", "8", "9">>

IsDigit(c) == \E d \in 1..10 : Digits[d] = c

DigitVal(c) == (CHOOSE d \in 1..10 : Digits[d] = c) - 1

RECURSIVE IntToStr(_)
IntToStr(n) ==
    IF n < 10 THEN <<Digits[n + 1]>>
    ELSE IntToStr(n \div 10) \o <<Digits[(n % 10) + 1]>>

RECURSIVE lstrip(_)
lstrip(s) ==
    IF s # <<>> /\ Head(s) \in Whitespace THEN lstrip(Tail(s)) ELSE s

RECURSIVE rstrip(_)
rstrip(s) ==
    IF s # <<>> /\ s[Len(s)] \in Whitespace
    THEN rstrip(SubSeq(s, 1, Len(s) - 1))
    ELSE s

\* str.strip()
strip(s) == rstrip(lstrip(s))

\* int(s) raises ValueError unless s, stripped, is a non-empty run of digits
IsInt(s) ==
    LET t == strip(s) IN t # <<>> /\ \A i \in 1..Len(t) : IsDigit(t[i])

RECURSIVE DigitsVal(_)
DigitsVal(t) ==
    IF t = <<>> THEN 0
    ELSE 10 * DigitsVal(SubSeq(t, 1, Len(t) - 1)) + DigitVal(t[Len(t)])

IntVal(s) == DigitsVal(strip(s))

(***************************************************************************)
(* str.split('|'), file.readlines() and file.writelines().                 *)
(***************************************************************************)
RECURSIVE SplitFrom(_, _, _)
SplitFrom(s, i, cur) ==
    IF i > Len(s) THEN <<cur>>
    ELSE IF s[i] = SEP THEN <<cur>> \o SplitFrom(s, i + 1, <<>>)
    ELSE SplitFrom(s, i + 1, Append(cur, s[i]))

split(s) == SplitFrom(s, 1, <<>>)

RECURSIVE LinesFrom(_, _, _)
LinesFrom(f, i, cur) ==
    IF i > Len(f) THEN (IF cur = <<>> THEN <<>> ELSE <<cur>>)
    ELSE IF f[i] = LF THEN <<Append(cur, LF)>> \o LinesFrom(f, i + 1, <<>>)
    ELSE LinesFrom(f, i + 1, Append(cur, f[i]))

readlines(f) == LinesFrom(f, 1, <<>>)

RECURSIVE Flatten(_)
Flatten(ls) == IF ls = <<>> THEN <<>> ELSE Head(ls) \o Flatten(Tail(ls))

\* the fields of one line as every reader takes them: line.strip().split('|')
Parts(line) == split(strip(line))

\* the f-string both scripts write a record with
FormatLine(ts, category, name, dupe_key, status) ==
    ts \o <<SEP>> \o category \o <<SEP>> \o name \o <<SEP>> \o dupe_key
       \o <<SEP>> \o status \o <<LF>>


(***************************************************************************)
(* Matching helpers of the post-processing script.                         *)
(***************************************************************************)
\* str.lower() on one character
Lower(c) == IF c = "A" THEN "a" ELSE IF c = "B" THEN "b" ELSE c

\* str.replace('.', ' ').replace('_', ' ') on one character
Unpunct(c) == IF c \in {".", "_"} THEN " " ELSE c

_normalize_name(name) ==
    IF name = <<>> THEN <<>>
    ELSE LET s == strip(name) IN [i \in 1..Len(s) |-> Unpunct(Lower(s[i]))]

\* Python's  x in y  on strings
Contains(y, x) ==
    \E i \in 1..(Len(y) - Len(x) + 1) : SubSeq(y, i, i + Len(x) - 1) = x

NoMatch == "none"

\* the match method _is_match records, or NoMatch when it returns False
\* a matcher that tries the partial-name rule before the exact-name rules
_is_match_partial_first(e, use_duplicate_key, history_name, history_key) ==
    IF /\ use_duplicate_key
       /\ e.duplicate_key # <<>>
       /\ history_key # <<>>
       /\ e.duplicate_key = history_key
    THEN "duplicate_key_exact"
    ELSE IF /\ e.nzb_name # <<>>
            /\ history_name # <<>>
            /\ (Contains(history_name, e.nzb_name) \/ Contains(e.nzb_name, history_name))
    THEN "name_partial"
    ELSE IF e.filename # <<>> /\ history_name # <<>> /\ e.filename = history_name
    THEN "filename_exact"
    ELSE NoMatch

_is_match(e, use_duplicate_key, history_name, history_key) ==
    IF /\ use_duplicate_key
       /\ e.duplicate_key # <<>>
       /\ history_key # <<>>
       /\ e.duplicate_key = history_key
    THEN "duplicate_key_exact"
    ELSE IF e.nzb_name # <<>> /\ history_name # <<>> /\ e.nzb_name = history_name
    THEN "name_exact"
    ELSE IF /\ e.nzb_name # <<>>
            /\ history_name # <<>>
            /\ _normalize_name(e.nzb_name) # <<>>
            /\ _normalize_name(history_name) # <<>>
            /\ _normalize_name(e.nzb_name) = _normalize_name(history_name)
    THEN "name_normalized"
    ELSE IF e.filename # <<>> /\ history_name # <<>> /\ e.filename = history_name
    THEN "filename_exact"
    ELSE IF /\ e.nzb_name # <<>>
            /\ history_name # <<>>
            /\ (Contains(history_name, e.nzb_name) \/ Contains(e.nzb_name, history_name))
    THEN "name_partial"
    ELSE NoMatch

(***************************************************************************)
(* clean_old_entries: the lines the sweep keeps.                           *)
(***************************************************************************)
KeepLine(line, time_window_seconds, current_time) ==
    LET parts == Parts(line) IN
    /\ Len(parts) >= 4
    /\ IsInt(parts[1])
    /\ current_time - IntVal(parts[1]) < time_window_seconds

\* a sweep that also drops the oldest line it keeps
CleanLines_drops_head(lines, time_window_seconds, current_time) ==
    LET kept == SelectSeq(lines, LAMBDA l : KeepLine(l, time_window_seconds, current_time))
    IN IF kept = <<>> THEN <<>> ELSE Tail(kept)

CleanLines(lines, time_window_seconds, current_time) ==
    SelectSeq(lines, LAMBDA l : KeepLine(l, time_window_seconds, current_time))

(***************************************************************************)
(* check_duplicate: the scan over the lines read.  dup carries             *)
(* duplicate_timestamp and duplicate_status (set: not None).               *)
(***************************************************************************)
NoDup == [set |-> FALSE, timestamp |-> 0, status |-> <<>>]

\* lines 151-156: which record the admission check takes as a match
PreMatch(e, use_duplicate_key, name, dupe_key) ==
    \/ /\ use_duplicate_key
       /\ e.duplicate_key # <<>>
       /\ dupe_key # <<>>
       /\ dupe_key = e.duplicate_key
    \/ /\ e.duplicate_key = <<>>
       /\ name = e.nzb_name

\* a status test without the defensive else branch
BlockOnStatus_unknown_allowed(status) ==
    status \in {<<"SUCCESS">>, <<"PENDING">>}

\* a status test that blocks completed downloads only
BlockOnStatus_pending_allowed(status) ==
    status # <<"PENDING">> /\ status # <<"FAILED">>

\* lines 169-180: block or allow by the status of the deciding record
BlockOnStatus(status) ==
    IF status = <<"SUCCESS">> THEN TRUE
    ELSE IF status = <<"PENDING">> THEN TRUE
    ELSE IF status = <<"FAILED">> THEN FALSE
    ELSE TRUE

\* a scan that blocks or allows on the first matching record, whatever its age
RECURSIVE CheckScan_ignores_age(_, _, _, _, _, _)
CheckScan_ignores_age(lines, e, use_duplicate_key, current_time, time_window_seconds, dup) ==
    IF lines = <<>> THEN [block |-> FALSE, dup |-> dup]
    ELSE
      LET parts == Parts(Head(lines)) IN
      IF Len(parts) >= 5 /\ PreMatch(e, use_duplicate_key, parts[3], parts[4])
         /\ IsInt(parts[1])
      THEN [block |-> BlockOnStatus(parts[5]),
            dup |-> [set |-> TRUE, timestamp |-> IntVal(parts[1]), status |-> parts[5]]]
      ELSE CheckScan_ignores_age(Tail(lines), e, use_duplicate_key, current_time,
                                 time_window_seconds, dup)

RECURSIVE CheckScan(_, _, _, _, _, _)
CheckScan(lines, e, use_duplicate_key, current_time, time_window_seconds, dup) ==
    IF lines = <<>> THEN [block |-> FALSE, dup |-> dup]
    ELSE
      LET parts == Parts(Head(lines))
          rest == Tail(lines)
      IN
      IF Len(parts) < 5
      THEN CheckScan(rest, e, use_duplicate_key, current_time, time_window_seconds, dup)
      ELSE IF ~PreMatch(e, use_duplicate_key, parts[3], parts[4])
      THEN CheckScan(rest, e, use_duplicate_key, current_time, time_window_seconds, dup)
      ELSE IF ~IsInt(parts[1])
      THEN CheckScan(rest, e, use_duplicate_key, current_time, time_window_seconds, dup)
      ELSE
        LET ts == IntVal(parts[1])
            d == [set |-> TRUE, timestamp |-> ts, status |-> parts[5]]
        IN
        IF current_time - ts < time_window_seconds
        THEN [block |-> BlockOnStatus(parts[5]), dup |-> d]
        ELSE CheckScan(rest, e, use_duplicate_key, current_time, time_window_seconds, d)

check_duplicate(lines, e, use_duplicate_key, current_time, time_window_seconds) ==
    CheckScan(lines, e, use_duplicate_key, current_time, time_window_seconds, NoDup)

(***************************************************************************)
(* update_status: the scan that rewrites the first matching PENDING line.  *)
(***************************************************************************)
\* a report that takes every completion for a success
FinalStatus_always_success(e) == <<"SUCCESS">>

FinalStatus(e) == IF e.status = "0" THEN <<"SUCCESS">> ELSE <<"FAILED">>

\* an update_status that transitions the first matching record of any status
RECURSIVE UpdateScan_any_status(_, _, _, _, _)
UpdateScan_any_status(lines, e, use_duplicate_key, updated, method) ==
    IF lines = <<>>
    THEN [new_lines |-> <<>>, updated |-> updated, match_method |-> method]
    ELSE
      LET line == Head(lines)
          parts == Parts(line)
      IN
      IF Len(parts) < 5
      THEN LET r == UpdateScan_any_status(Tail(lines), e, use_duplicate_key, updated, method)
           IN [r EXCEPT !.new_lines = <<line>> \o @]
      ELSE
        LET m == _is_match(e, use_duplicate_key, parts[3], parts[4])
            method2 == IF m = NoMatch THEN method ELSE m
            hit == m # NoMatch /\ ~updated
            out == IF hit
                   THEN FormatLine(parts[1], parts[2], parts[3], parts[4], FinalStatus(e))
                   ELSE line
            r == UpdateScan_any_status(Tail(lines), e, use_duplicate_key,
                                       updated \/ hit, method2)
        IN [r EXCEPT !.new_lines = <<out>> \o @]

RECURSIVE UpdateScan(_, _, _, _, _)
UpdateScan(lines, e, use_duplicate_key, updated, method) ==
    IF lines = <<>>
    THEN [new_lines |-> <<>>, updated |-> updated, match_method |-> method]
    ELSE
      LET line == Head(lines)
          parts == Parts(line)
      IN
      IF Len(parts) < 5
      THEN LET r == UpdateScan(Tail(lines), e, use_duplicate_key, updated, method)
           IN [r EXCEPT !.new_lines = <<line>> \o @]
      ELSE
        LET m == _is_match(e, use_duplicate_key, parts[3], parts[4])
            method2 == IF m = NoMatch THEN method ELSE m
            hit == m # NoMatch /\ parts[5] = <<"PENDING">> /\ ~updated
            out == IF hit
                   THEN FormatLine(parts[1], parts[2], parts[3], parts[4], FinalStatus(e))
                   ELSE line
            r == UpdateScan(Tail(lines), e, use_duplicate_key, updated \/ hit, method2)
        IN [r EXCEPT !.new_lines = <<out>> \o @]

update_lines(lines, e, use_duplicate_key) ==
    UpdateScan(lines, e, use_duplicate_key, FALSE, NoMatch)

(***************************************************************************)
(* The state: the history file, the flock on it, the clock, and the        *)
(* activations (one process each) of the two scripts.                      *)
(***************************************************************************)
VARIABLES
    store,          \* content of the history file
    holders,        \* activations holding flock(LOCK_EX) on the history file
    now,            \* time.time()
    faults,         \* OSErrors raised so far
    runs,           \* activations started so far
    cfg,            \* the loaded configuration
    pc,             \* where each activation stands
    kind,           \* "pre" (pre-queue script) or "post" (post-processing script)
    env,            \* SAB_* environment of the activation
    current_time,   \* self.current_time
    snap,           \* what the activation's last readlines() returned
    scanned,        \* check_duplicate read the file and scanned it
    dup,            \* duplicate_timestamp / duplicate_status
    resp,           \* response printed to SABnzbd: "none", "accept", "reject"
    code,           \* process exit code, -1 while running
    updated,        \* update_status's return value
    err,            \* where the activation's OSError was raised, "none" if none was
    seed,           \* the history file as the first activation found it
    arr_calls,      \* block_in_arr calls made, in order: app, strategies tried, result
    blocked_instance, \* "Radarr" or "Sonarr" when blocklisting succeeded, else "None"
    notified        \* the block notification: how the send ended, and its blocked_instance

vars == <<store, holders, now, faults, runs, cfg, pc, kind, env, current_time,
          snap, scanned, dup, resp, code, updated, err, seed,
          arr_calls, blocked_instance, notified>>

\* what the reject branch of run() sets
downstream == <<arr_calls, blocked_instance, notified>>

NoNotification == [result |-> "none", blocked_instance |-> "None"]

shared == <<store, holders, now, faults, runs, cfg, seed>>

NoEnv == [nzb_name |-> <<>>, category |-> <<>>, duplicate_key |-> <<>>,
          status |-> "0", filename |-> <<>>]

\* environments the host may start the pre-queue script with
PreEnvs(names, cats, keys) ==
    [nzb_name : names, category : cats, duplicate_key : keys,
     status : {"0"}, filename : {<<>>}]

\* environments the host may start the post-processing script with
PostEnvs(names, cats, keys, stats, fnames) ==
    [nzb_name : names, category : cats, duplicate_key : keys,
     status : stats, filename : fnames]

Configs(udk, inc) ==
    [use_duplicate_key : udk, ignored_categories : {{<<"x">>}},
     ignore_no_category : inc]

(***************************************************************************)
(* File semantics.                                                         *)
(***************************************************************************)
\* write(2) at offset 0 of a file opened 'w': bytes past the data stay
Overlay(file, data) ==
    data \o SubSeq(file, Len(data) + 1, Len(file))

\* a write on a file opened 'w' in place of 'a': the earlier content is gone
AppendTo_replaces(file, data) == data

\* write(2) on a file opened 'a' (O_APPEND)
AppendTo(file, data) == file \o data

(***************************************************************************)
(* Program counters.                                                       *)
(***************************************************************************)
EnterPcs == {"clean_r", "check_r", "upd_r", "add_a", "clean_wlock", "upd_wlock"}
OpenWPcs == {"clean_w", "upd_w"}
ReadPcs == {"clean_read", "check_read", "upd_read"}
WritePcs == {"clean_write", "upd_write", "add_write"}
ClosePcs == {"clean_close", "upd_close", "add_close"}
LockedPcs == ReadPcs \cup WritePcs

AfterEnter(l) ==
    CASE l = "clean_r" -> "clean_read"
      [] l = "check_r" -> "check_read"
      [] l = "upd_r" -> "upd_read"
      [] l = "add_a" -> "add_write"
      [] l = "clean_wlock" -> "clean_write"
      [] l = "upd_wlock" -> "upd_write"

AfterOpenW(l) ==
    CASE l = "clean_w" -> "clean_wlock"
      [] l = "upd_w" -> "upd_wlock"

AfterRead(l) ==
    CASE l = "clean_read" -> "clean_w"
      [] l = "check_read" -> "decide"
      [] l = "upd_read" -> "upd_w"

ClosePc(l) ==
    CASE l = "clean_write" -> "clean_close"
      [] l = "upd_write" -> "upd_close"
      [] l = "add_write" -> "add_close"

InClean(l) == l \in {"clean_r", "clean_read", "clean_w", "clean_wlock", "clean_write", "clean_close"}
InCheck(l) == l \in {"check_r", "check_read"}
InAdd(l) == l \in {"add_a", "add_write", "add_close"}
InUpdate(l) == l \in {"upd_r", "upd_read", "upd_w", "upd_wlock", "upd_write", "upd_close"}

\* a category filter that lets every category through
Ignored_never(e) == FALSE

Ignored(e) ==
    \/ e.category # <<>> /\ e.category \in cfg.ignored_categories
    \/ e.category = <<>> /\ cfg.ignore_no_category

\* an update_status that adds an entry when it found none to update
UpdateResult_adds_entry(p) ==
    LET r == update_lines(readlines(snap[p]), env[p], cfg.use_duplicate_key) IN
    IF r.updated THEN r
    ELSE [r EXCEPT !.new_lines =
            @ \o <<FormatLine(IntToStr(current_time[p]), env[p].category,
                              env[p].nzb_name, env[p].duplicate_key,
                              FinalStatus(env[p]))>>]

\* what update_status has computed from the lines it read
UpdateResult(p) ==
    update_lines(readlines(snap[p]), env[p], cfg.use_duplicate_key)

\* the text the activation's pending write holds
WriteData(p) ==
    IF InClean(pc[p])
    THEN Flatten(CleanLines(readlines(snap[p]), TimeWindowSeconds, current_time[p]))
    ELSE IF InUpdate(pc[p])
    THEN Flatten(UpdateResult(p).new_lines)
    ELSE FormatLine(IntToStr(current_time[p]), env[p].category, env[p].nzb_name,
                    env[p].duplicate_key, <<"PENDING">>)

\* the file after the activation's pending write reaches it
Written(p) ==
    IF InAdd(pc[p]) THEN AppendTo(store, WriteData(p)) ELSE Overlay(store, WriteData(p))

(***************************************************************************)
(* Leaving a store operation (clean_old_entries, check_duplicate,          *)
(* add_to_history, update_status), by its end or through its except        *)
(* clause: what the caller does next.                                      *)
(***************************************************************************)
Leave(p) ==
    LET l == pc[p] IN
    /\ pc' = [pc EXCEPT ![p] = IF InClean(l) THEN "check_r"
                               ELSE IF InCheck(l) THEN "add_a"
                               ELSE "done"]
    /\ resp' = [resp EXCEPT ![p] = IF InAdd(l) THEN "accept" ELSE @]
    /\ code' = [code EXCEPT ![p] = IF InAdd(l) \/ InUpdate(l) THEN 0 ELSE @]
    /\ updated' = [updated EXCEPT ![p] =
                     IF InUpdate(l) THEN UpdateResult(p).updated ELSE @]
    /\ UNCHANGED <<kind, env, current_time, snap, scanned, dup, seed>>

(***************************************************************************)
(* Actions.                                                                *)
(***************************************************************************)
\* the host starts an activation in the lowest free process slot
FreeSlot(p) == pc[p] = "idle" /\ \A q \in Procs : q < p => pc[q] # "idle"

\* no other activation is running
Solo(p) == \A q \in Procs \ {p} : pc[q] = "idle"

\* no activation is running
Quiet == \A p \in Procs : pc[p] = "idle"

\* PreQueueLoopPrevention.__init__ and run() up to the category filter
PreQueue_start(p, envs, max_runs, overlap) ==
    /\ UNCHANGED downstream
    /\ FreeSlot(p)
    /\ overlap \/ Solo(p)
    /\ runs < max_runs
    /\ \E e \in envs :
         /\ env' = [env EXCEPT ![p] = e]
         /\ IF Ignored(e)
            THEN /\ pc' = [pc EXCEPT ![p] = "done"]
                 /\ resp' = [resp EXCEPT ![p] = "accept"]
                 /\ code' = [code EXCEPT ![p] = 0]
            ELSE /\ pc' = [pc EXCEPT ![p] = "clean_r"]
                 /\ UNCHANGED <<resp, code>>
    /\ kind' = [kind EXCEPT ![p] = "pre"]
    /\ current_time' = [current_time EXCEPT ![p] = now]
    /\ runs' = runs + 1
    /\ UNCHANGED <<store, holders, now, faults, cfg, snap, scanned, dup, updated, err, seed>>

\* PostProcessLoopPrevention.__init__ and run() up to the category filter
PostProcess_start(p, envs, max_runs, overlap) ==
    /\ UNCHANGED downstream
    /\ FreeSlot(p)
    /\ overlap \/ Solo(p)
    /\ runs < max_runs
    /\ \E e \in envs :
         /\ env' = [env EXCEPT ![p] = e]
         /\ IF Ignored(e)
            THEN /\ pc' = [pc EXCEPT ![p] = "done"]
                 /\ code' = [code EXCEPT ![p] = 0]
            ELSE /\ pc' = [pc EXCEPT ![p] = "upd_r"]
                 /\ UNCHANGED code
    /\ kind' = [kind EXCEPT ![p] = "post"]
    /\ current_time' = [current_time EXCEPT ![p] = now]
    /\ runs' = runs + 1
    /\ UNCHANGED <<store, holders, now, faults, cfg, snap, scanned, dup, resp, updated, err, seed>>

\* a flock() that never waits (a shared lock, or LOCK_NB with the error dropped)
LockFree_never_waits(p) == TRUE

\* flock(LOCK_EX) blocks until no other open file description holds the lock
LockFree(p) == holders = {}

\* an __exit__ that leaves the lock in place
LockedFile_exit_keeps_lock(p, raised) == holders

\* an __exit__ that unlocks only when the with body ended normally
LockedFile_exit_skips_on_error(p, raised) ==
    IF raised THEN holders ELSE holders \ {p}

\* LockedFile.__exit__: flock(LOCK_UN), whether or not the with body raised
LockedFile_exit(p, raised) == holders \ {p}

\* LockedFile.__enter__: open() in mode 'r' or 'a' and flock(), or the flock()
\* that follows an open() in mode 'w'
LockedFile_enter(p) ==
    /\ UNCHANGED downstream
    /\ pc[p] \in EnterPcs
    /\ LockFree(p)
    /\ holders' = holders \cup {p}
    /\ pc' = [pc EXCEPT ![p] = AfterEnter(pc[p])]
    /\ UNCHANGED <<store, now, faults, runs, cfg, kind, env, current_time, snap,
                   scanned, dup, resp, code, updated, err, seed>>

\* LockedFile.__enter__ in mode 'w': open() truncates the file, before flock()
LockedFile_open_w(p) ==
    /\ UNCHANGED downstream
    /\ pc[p] \in OpenWPcs
    /\ store' = <<>>
    /\ pc' = [pc EXCEPT ![p] = AfterOpenW(pc[p])]
    /\ UNCHANGED <<holders, now, faults, runs, cfg, kind, env, current_time, snap,
                   scanned, dup, resp, code, updated, err, seed>>

\* lines = f.readlines() under the lock, then LockedFile.__exit__
LockedFile_read(p) ==
    /\ UNCHANGED downstream
    /\ pc[p] \in ReadPcs
    /\ snap' = [snap EXCEPT ![p] = store]
    /\ scanned' = [scanned EXCEPT ![p] = (pc[p] = "check_read")]
    /\ holders' = LockedFile_exit(p, FALSE)
    /\ pc' = [pc EXCEPT ![p] = AfterRead(pc[p])]
    /\ UNCHANGED <<store, now, faults, runs, cfg, kind, env, current_time,
                   dup, resp, code, updated, err, seed>>

\* f.writelines() / f.write() under the lock, then LockedFile.__exit__'s
\* flock(LOCK_UN): the text reaches the file at once when it passes through
\* Python's buffer, and stays in the buffer otherwise
LockedFile_write(p) ==
    /\ UNCHANGED downstream
    /\ pc[p] \in WritePcs
    /\ holders' = LockedFile_exit(p, FALSE)
    /\ err' = err
    /\ \/ /\ store' = Written(p)
          /\ Leave(p)
       \/ /\ store' = store
          /\ pc' = [pc EXCEPT ![p] = ClosePc(pc[p])]
          /\ UNCHANGED <<kind, env, current_time, snap, scanned, dup, resp, code,
                         updated, seed>>
    /\ UNCHANGED <<now, faults, runs, cfg>>

\* LockedFile.__exit__'s file.close(), after the unlock: flushes the buffer
LockedFile_close(p) ==
    /\ UNCHANGED downstream
    /\ pc[p] \in ClosePcs
    /\ store' = Written(p)
    /\ Leave(p)
    /\ UNCHANGED <<holders, now, faults, runs, cfg, err>>

\* an OSError raised by open(), flock(), readlines(), the write or close():
\* LockedFile.__exit__ unlocks if the with body was entered, and the
\* operation's except clause takes over
OSError_raised(p) ==
    /\ UNCHANGED downstream
    /\ pc[p] \in EnterPcs \cup OpenWPcs \cup ReadPcs \cup WritePcs \cup ClosePcs
    /\ faults < MaxFaults
    /\ faults' = faults + 1
    /\ err' = [err EXCEPT ![p] = pc[p]]
    /\ holders' = LockedFile_exit(p, TRUE)
    /\ Leave(p)
    /\ UNCHANGED <<store, now, runs, cfg>>

\* check_duplicate's scan of the lines read, and run()'s branch on its result
PreQueue_decide(p) ==
    /\ UNCHANGED downstream
    /\ pc[p] = "decide"
    /\ LET r == check_duplicate(readlines(snap[p]), env[p], cfg.use_duplicate_key,
                                current_time[p], TimeWindowSeconds)
       IN /\ dup' = [dup EXCEPT ![p] = r.dup]
          /\ IF r.block
             THEN /\ resp' = [resp EXCEPT ![p] = "reject"]
                  /\ pc' = [pc EXCEPT ![p] = "block"]
             ELSE /\ resp' = resp
                  /\ pc' = [pc EXCEPT ![p] = "add_a"]
    /\ UNCHANGED <<store, holders, now, faults, runs, cfg, kind, env, current_time,
                   snap, scanned, code, updated, err, seed>>

\* how one try_block_in_instances() ends: no instance is configured for the
\* category, block_in_arr returns False (every error inside it is caught), or
\* block_in_arr returns True
ArrOutcomes == {"absent", "failed", "blocked"}

\* how one strategy of block_in_arr can end: an error raised by a request, no
\* matching item found, or the item found and blocklisted
StrategyOutcomes == {"error", "nothing", "blocked"}

Tried(strategy, outcome) == [strategy |-> strategy, outcome |-> outcome]

\* block_in_arr, o[i] being how strategy i ends if it is tried. An error in
\* strategy 1 enters the inner handler, whose LogLevel.WARNING does not exist:
\* the AttributeError, like an error in strategy 2 or 3, reaches the outer
\* handler, which returns False.
block_in_arr(o) ==
    LET since == <<Tried("since", o[1])>>
        paginated == since \o <<Tried("paginated", o[2])>>
        queue == paginated \o <<Tried("queue", o[3])>>
    IN IF o[1] = "blocked" THEN [tried |-> since, result |-> TRUE]
       ELSE IF o[1] = "error" THEN [tried |-> since, result |-> FALSE]
       ELSE IF o[2] = "blocked" THEN [tried |-> paginated, result |-> TRUE]
       ELSE IF o[2] = "error" THEN [tried |-> paginated, result |-> FALSE]
       ELSE [tried |-> queue, result |-> o[3] = "blocked"]

\* try_block_in_instances for one application: no call when no instance is
\* configured for the category, else one call of block_in_arr
ArrCall(app, r, o) ==
    IF r = "absent" THEN <<>>
    ELSE <<[app |-> app, tried |-> block_in_arr(o).tried, result |-> r]>>

\* the ways try_block_in_instances can go for one application
ArrCalls(app) ==
    {ArrCall(app, x[1], x[2]) :
        x \in {y \in ArrOutcomes \X [1..3 -> StrategyOutcomes] :
                  \/ y[1] = "absent"
                  \/ y[1] = "blocked" /\ block_in_arr(y[2]).result
                  \/ y[1] = "failed" /\ ~block_in_arr(y[2]).result}}

\* a run() that records the instance of its last downstream call, failed or not
BlockedIn_records_attempt(calls) ==
    IF calls = <<>> THEN "None" ELSE calls[Len(calls)].app

\* run(), lines 536-547: blocked_instance stays None unless a call of
\* try_block_in_instances returned success, and then names that instance
BlockedIn(calls) ==
    IF \E i \in 1..Len(calls) : calls[i].result = "blocked"
    THEN (CHOOSE c \in {calls[i] : i \in 1..Len(calls)} : c.result = "blocked").app
    ELSE "None"

\* a run() that goes to the downstream instances on every reject
OnlyBlockOnSuccess_any_status(duplicate_status) == TRUE

\* run(), line 539: "Only block in *arr if status is SUCCESS"
OnlyBlockOnSuccess(duplicate_status) == duplicate_status = <<"SUCCESS">>

\* run() after a block, lines 536-549: downstream blocklisting, only when the
\* matched record's status is SUCCESS; Radarr first, Sonarr when Radarr did
\* not succeed
PreQueue_block(p) ==
    /\ pc[p] = "block"
    /\ IF OnlyBlockOnSuccess(dup[p].status)
       THEN \E radarr \in ArrCalls("Radarr"), s \in ArrCalls("Sonarr") :
              LET sonarr == IF radarr # <<>> /\ radarr[1].result = "blocked"
                            THEN <<>>
                            ELSE s
              IN /\ arr_calls' = [arr_calls EXCEPT ![p] = radarr \o sonarr]
                 /\ blocked_instance' = [blocked_instance EXCEPT ![p] =
                        BlockedIn(radarr \o sonarr)]
       ELSE UNCHANGED <<arr_calls, blocked_instance>>
    /\ pc' = [pc EXCEPT ![p] = "notify"]
    /\ UNCHANGED <<store, holders, now, faults, runs, cfg, kind, env, current_time,
                   snap, scanned, dup, resp, code, updated, err, seed, notified>>

\* run() after a block, lines 551-552: send_block_notification, whose notifier
\* may be absent, succeed, return False or raise, then sys.exit(0); a raised
\* error reaches __main__'s except clause, which exits with 1
PreQueue_notify(p) ==
    /\ pc[p] = "notify"
    /\ \E outcome \in {"none", "sent", "failed", "raised"} :
         /\ code' = [code EXCEPT ![p] = IF outcome = "raised" THEN 1 ELSE 0]
         /\ notified' = [notified EXCEPT ![p] =
               IF outcome = "none" THEN NoNotification
               ELSE [result |-> outcome, blocked_instance |-> blocked_instance[p]]]
    /\ pc' = [pc EXCEPT ![p] = "done"]
    /\ UNCHANGED <<store, holders, now, faults, runs, cfg, kind, env, current_time,
                   snap, scanned, dup, resp, updated, err, seed,
                   arr_calls, blocked_instance>>

\* the process is gone; its slot is free for the host's next activation
Exit(p) ==
    /\ pc[p] = "done"
    /\ pc' = [pc EXCEPT ![p] = "idle"]
    /\ kind' = [kind EXCEPT ![p] = "none"]
    /\ env' = [env EXCEPT ![p] = NoEnv]
    /\ current_time' = [current_time EXCEPT ![p] = 0]
    /\ snap' = [snap EXCEPT ![p] = <<>>]
    /\ scanned' = [scanned EXCEPT ![p] = FALSE]
    /\ dup' = [dup EXCEPT ![p] = NoDup]
    /\ resp' = [resp EXCEPT ![p] = "none"]
    /\ code' = [code EXCEPT ![p] = -1]
    /\ updated' = [updated EXCEPT ![p] = FALSE]
    /\ err' = [err EXCEPT ![p] = "none"]
    /\ arr_calls' = [arr_calls EXCEPT ![p] = <<>>]
    /\ blocked_instance' = [blocked_instance EXCEPT ![p] = "None"]
    /\ notified' = [notified EXCEPT ![p] = NoNotification]
    /\ UNCHANGED shared

\* time passes; between activations only when they run one after another
\* (an activation reads the clock once, in __init__)
Tick(max_time, overlap) ==
    /\ UNCHANGED downstream
    /\ now < max_time
    /\ overlap \/ Quiet
    /\ now' = now + 1
    /\ UNCHANGED <<store, holders, faults, runs, cfg, pc, kind, env, current_time,
                   snap, scanned, dup, resp, code, updated, err, seed>>

(***************************************************************************)
(* Specifications.                                                         *)
(***************************************************************************)
InitProcs ==
    /\ pc = [p \in Procs |-> "idle"]
    /\ kind = [p \in Procs |-> "none"]
    /\ env = [p \in Procs |-> NoEnv]
    /\ current_time = [p \in Procs |-> 0]
    /\ snap = [p \in Procs |-> <<>>]
    /\ scanned = [p \in Procs |-> FALSE]
    /\ dup = [p \in Procs |-> NoDup]
    /\ resp = [p \in Procs |-> "none"]
    /\ code = [p \in Procs |-> -1]
    /\ updated = [p \in Procs |-> FALSE]
    /\ err = [p \in Procs |-> "none"]
    /\ arr_calls = [p \in Procs |-> <<>>]
    /\ blocked_instance = [p \in Procs |-> "None"]
    /\ notified = [p \in Procs |-> NoNotification]

\* the steps of a started activation
Step(p) ==
    \/ LockedFile_enter(p)
    \/ LockedFile_open_w(p)
    \/ LockedFile_read(p)
    \/ LockedFile_write(p)
    \/ LockedFile_close(p)
    \/ OSError_raised(p)
    \/ PreQueue_decide(p)
    \/ PreQueue_block(p)
    \/ PreQueue_notify(p)
    \/ Exit(p)

\* Concurrent activations.  The history file is empty or holds the record of
\* a download admitted earlier, at time 0.
ConcNames == {<<"a">>, <<"a", "b">>}
ConcKeys == {<<>>}
ConcCats == {<<>>}
ConcPre == PreEnvs(ConcNames, ConcCats, ConcKeys)
ConcPost == PostEnvs(ConcNames, ConcCats, ConcKeys, {"0"}, {<<>>})
ConcStores == {<<>>, FormatLine(IntToStr(0), <<>>, <<"a">>, <<>>, <<"PENDING">>)}

Init ==
    /\ store \in ConcStores
    /\ seed = store
    /\ holders = {}
    /\ now = 1
    /\ faults = 0
    /\ runs = 0
    /\ cfg \in Configs({TRUE}, {FALSE})
    /\ InitProcs

Next ==
    \/ \E p \in Procs : PreQueue_start(p, ConcPre, ConcRuns, TRUE)
    \/ \E p \in Procs : PostProcess_start(p, ConcPost, ConcRuns, TRUE)
    \/ \E p \in Procs : Step(p)
    \/ Tick(ConcMaxTime, TRUE)

Spec == Init /\ [][Next]_vars

\* the activation's process is runnable: it has a step to take, which at a
\* flock() takes the lock being free (or the call failing with an OSError)
Runnable(p) ==
    /\ pc[p] # "idle"
    /\ pc[p] \in EnterPcs => (LockFree(p) \/ faults < MaxFaults)

\* the places of an activation
PcLabels ==
    {"idle", "decide", "block", "notify", "done"}
    \cup EnterPcs \cup OpenWPcs \cup ReadPcs \cup WritePcs \cup ClosePcs

\* a runnable process is scheduled and moves on: the steps that change pc at
\* p are the steps Step(p)
Scheduled(p) ==
    /\ Runnable(p)
    /\ \E l \in PcLabels \ {pc[p]} : pc' = [pc EXCEPT ![p] = l]

\* Concurrent activations under fair scheduling: a process that stays
\* runnable (flock() blocks with no timeout and returns once the lock is
\* free) is eventually scheduled.
LivePre == PreEnvs({<<"a">>}, ConcCats, ConcKeys)
LivePost == PostEnvs({<<"a">>}, ConcCats, ConcKeys, {"0"}, {<<>>})

NextLive ==
    \/ \E p \in Procs : PreQueue_start(p, LivePre, ConcRuns, TRUE)
    \/ \E p \in Procs : PostProcess_start(p, LivePost, ConcRuns, TRUE)
    \/ \E p \in Procs : Step(p)
    \/ Tick(ConcMaxTime, TRUE)

SpecLive == Init /\ [][NextLive]_vars /\ \A p \in Procs : WF_pc(Scheduled(p))

\* Activations one after another (no two overlap), from an empty history file.
SeqPre ==
    PreEnvs({<<"a">>, <<"a", "b">>}, {<<>>}, {<<>>})
    \cup PreEnvs({<<"a">>}, {<<>>, <<"x">>}, {<<"k">>})
SeqPost ==
    PostEnvs({<<"a">>, <<"a", "b">>}, {<<>>}, {<<>>}, {"0", "1"}, {<<>>})
    \cup PostEnvs({<<"a">>}, {<<>>, <<"x">>}, {<<"k">>}, {"0", "1"}, {<<>>})

InitSeq ==
    /\ store = <<>>
    /\ seed = store
    /\ holders = {}
    /\ now = 0
    /\ faults = 0
    /\ runs = 0
    /\ cfg \in Configs(BOOLEAN, BOOLEAN)
    /\ InitProcs

NextSeq ==
    \/ \E p \in Procs : PreQueue_start(p, SeqPre, MaxRuns, FALSE)
    \/ \E p \in Procs : PostProcess_start(p, SeqPost, MaxRuns, FALSE)
    \/ \E p \in Procs : Step(p)
    \/ Tick(MaxTime, FALSE)

SpecSeq == InitSeq /\ [][NextSeq]_vars

\* Activations one after another on a history file whose lines earlier runs,
\* other versions or an editor left: records of every status, an unknown
\* status, a timestamp that is no integer, lines with too few fields, a line
\* with a sixth field.
SeedLines ==
    {FormatLine(IntToStr(0), <<>>, <<"a">>, <<>>, <<st>>) :
        st \in {"PENDING", "SUCCESS", "FAILED", "DONE"}}
    \cup {FormatLine(IntToStr(1), <<>>, <<"a">>, <<"k">>, <<st>>) :
        st \in {"PENDING", "FAILED"}}
    \cup {FormatLine(<<"x">>, <<>>, <<"a">>, <<>>, <<"PENDING">>),
          <<"0", SEP, "a", LF>>,
          <<"0", SEP, SEP, "a", SEP, LF>>,
          <<"0", SEP, SEP, "a", SEP, SEP, "PENDING", SEP, "x", LF>>}

SeedStores ==
    {<<>>} \cup SeedLines \cup {l1 \o l2 : l1 \in SeedLines, l2 \in SeedLines}

\* Names as the host passes them: one holds the field delimiter; the
\* post-processing script may see the name in another case and an alternative
\* file name.
SeedPre == PreEnvs({<<"a">>, <<"a", "b">>, <<"a", SEP, "b">>}, {<<>>}, {<<>>, <<"k">>})
SeedPost ==
    PostEnvs({<<"a">>, <<"a", "b">>, <<"A">>}, {<<>>}, {<<>>, <<"k">>}, {"0", "1"},
             {<<>>, <<"a">>})

InitSeeded ==
    /\ store \in SeedStores
    /\ seed = store
    /\ holders = {}
    /\ now = 1
    /\ faults = 0
    /\ runs = 0
    /\ cfg \in Configs(BOOLEAN, {FALSE})
    /\ InitProcs

NextSeeded ==
    \/ \E p \in Procs : PreQueue_start(p, SeedPre, SeedRuns, FALSE)
    \/ \E p \in Procs : PostProcess_start(p, SeedPost, SeedRuns, FALSE)
    \/ \E p \in Procs : Step(p)
    \/ Tick(MaxTime, FALSE)

SpecSeeded == InitSeeded /\ [][NextSeeded]_vars

\* Concurrent activations at clock values of two digits, on a history file
\* that holds the records of two downloads admitted one second apart: the
\* earlier one expires one second before the later one.
RaceStore ==
    FormatLine(IntToStr(RaceEpoch), <<>>, <<"a">>, <<>>, <<"PENDING">>)
    \o FormatLine(IntToStr(RaceEpoch + 1), <<>>, <<"a", "b">>, <<>>, <<"PENDING">>)

InitRace ==
    /\ store = RaceStore
    /\ seed = store
    /\ holders = {}
    /\ now = RaceEpoch + 1
    /\ faults = 0
    /\ runs = 0
    /\ cfg \in Configs({TRUE}, {FALSE})
    /\ InitProcs

NextRace ==
    \/ \E p \in Procs : PreQueue_start(p, ConcPre, ConcRuns, TRUE)
    \/ \E p \in Procs : PostProcess_start(p, ConcPost, ConcRuns, TRUE)
    \/ \E p \in Procs : Step(p)
    \/ Tick(RaceEpoch + TimeWindowSeconds, TRUE)

SpecRace == InitRace /\ [][NextRace]_vars

(***************************************************************************)
(* Properties.                                                             *)
(***************************************************************************)
StoreLines == readlines(store)

InStore(line) == \E i \in 1..Len(StoreLines) : StoreLines[i] = line

\* the record add_to_history writes for activation p
RecordOf(p) ==
    FormatLine(IntToStr(current_time[p]), env[p].category, env[p].nzb_name,
               env[p].duplicate_key, <<"PENDING">>)

\* a line the readers take as a record: at least five fields
IsRecord(line) == Len(Parts(line)) >= 5

\* the line is a record with an integer timestamp less than the window old at t
Young(line, t) ==
    /\ IsRecord(line)
    /\ IsInt(Parts(line)[1])
    /\ t - IntVal(Parts(line)[1]) < TimeWindowSeconds

HasStatus(line, st) == IsRecord(line) /\ Parts(line)[5] = <<st>>

\* the admission check of p takes the line as a match for its download
Matches(p, line) ==
    /\ IsRecord(line)
    /\ PreMatch(env[p], cfg.use_duplicate_key, Parts(line)[3], Parts(line)[4])

Abs(n) == IF n < 0 THEN -n ELSE n

\* C1: two admission checks for different identities, neither matching a
\* stored record nor each other, run concurrently without an I/O error: both
\* have emitted accept and, after both have exited, the history file holds
\* both of their PENDING records.
C1_BothRecordsKept ==
    \A p, q \in Procs :
        ( /\ p # q
          /\ kind[p] = "pre" /\ kind[q] = "pre"
          /\ pc[p] = "done" /\ pc[q] = "done"
          /\ faults = 0
          /\ ~Ignored(env[p]) /\ ~Ignored(env[q])
          /\ ~Matches(p, RecordOf(q)) /\ ~Matches(q, RecordOf(p))
          /\ \A i \in 1..Len(readlines(seed)) :
                ~Matches(p, readlines(seed)[i]) /\ ~Matches(q, readlines(seed)[i])
          /\ Abs(current_time[p] - current_time[q]) < TimeWindowSeconds )
        => /\ resp[p] = "accept" /\ resp[q] = "accept"
           /\ InStore(RecordOf(p)) /\ InStore(RecordOf(q))

\* two records stand for the same download: the same non-empty duplicate key,
\* or the same name when neither carries a duplicate key
SameIdentity(l1, l2) ==
    \/ Parts(l1)[4] # <<>> /\ Parts(l1)[4] = Parts(l2)[4]
    \/ Parts(l1)[4] = <<>> /\ Parts(l2)[4] = <<>> /\ Parts(l1)[3] = Parts(l2)[3]

\* C2: after any sequence of admission checks and completion reports run one
\* after another (and without I/O errors), the history file never holds two
\* PENDING records, both younger than the retention window, for the same
\* identity.
C2_OnePendingPerIdentity ==
    (Quiet /\ faults = 0) =>
        \A i, j \in 1..Len(StoreLines) :
            ( /\ i < j
              /\ HasStatus(StoreLines[i], "PENDING") /\ Young(StoreLines[i], now)
              /\ HasStatus(StoreLines[j], "PENDING") /\ Young(StoreLines[j], now) )
            => ~SameIdentity(StoreLines[i], StoreLines[j])

\* the lines p's check_duplicate read hold a record of the given status for
\* the same name and the same duplicate key, younger than the window
ReadRecordFor(p, st) ==
    \E i \in 1..Len(readlines(snap[p])) :
        LET line == readlines(snap[p])[i] IN
        /\ HasStatus(line, st)
        /\ Young(line, current_time[p])
        /\ Parts(line)[3] = env[p].nzb_name
        /\ Parts(line)[4] = env[p].duplicate_key

\* C3: whatever the configuration and the identity, an admission check whose
\* category is not ignored and which finds, within the retention window, the
\* PENDING or SUCCESS record of an earlier admission of the same name and the
\* same duplicate key emits reject.
C3_RepeatRejected ==
    \A p \in Procs :
        ( /\ kind[p] = "pre" /\ pc[p] = "done" /\ scanned[p] /\ faults = 0
          /\ ReadRecordFor(p, "PENDING") \/ ReadRecordFor(p, "SUCCESS") )
        => resp[p] = "reject"

\* the completion report of p matches the line by exact duplicate key or by
\* exact name
ExactMatch(p, line) ==
    /\ IsRecord(line)
    /\ _is_match(env[p], cfg.use_duplicate_key, Parts(line)[3], Parts(line)[4])
          \in {"duplicate_key_exact", "name_exact"}

\* C4: when a completion report runs while the PENDING record of its own
\* download (matched by exact duplicate key or exact name) is in the history
\* file, the record it transitions is matched by exact duplicate key or exact
\* name too, not a record that matches by a lower-priority rule only.
C4_OwnRecordTransitioned ==
    \A p \in Procs :
        LET before == readlines(snap[p]) IN
        ( /\ kind[p] = "post" /\ pc[p] = "done" /\ updated[p] /\ faults = 0
          /\ \E i \in 1..Len(before) :
                HasStatus(before[i], "PENDING") /\ ExactMatch(p, before[i]) )
        => /\ Len(StoreLines) = Len(before)
           /\ \A i \in 1..Len(before) :
                StoreLines[i] # before[i] => ExactMatch(p, before[i])

\* activation p has read the file and the write that depends on the read is
\* still to come or under way
BetweenReadAndWrite(p) ==
    pc[p] \in {"clean_w", "clean_wlock", "clean_write", "clean_close",
               "add_a", "add_write", "add_close",
               "upd_w", "upd_wlock", "upd_write", "upd_close"}

\* activation q reads the file or changes its content in this step
StoreAccess(q) ==
    \/ pc[q] \in ReadPcs /\ pc'[q] = AfterRead(pc[q])
    \/ pc'[q] # pc[q] /\ store' # store

\* C5: each read-modify-write of the history file is one transaction: no
\* other activation reads or writes the file between an activation's read and
\* the write that depends on it.
C5_ReadModifyWriteAtomic ==
    [][\A p, q \in Procs : (p # q /\ BetweenReadAndWrite(p)) => ~StoreAccess(q)]_vars

\* C6: every change of the history file's content, the truncation that begins
\* a rewrite included, is made by an activation that holds the exclusive lock.
C6_MutatedUnderLock ==
    [][store' # store => \E p \in Procs : pc'[p] # pc[p] /\ p \in holders]_vars

\* activation p stands between a successful flock(LOCK_EX) and its release
InCriticalSection(p) == pc[p] \in LockedPcs

\* C7: no two activations are in their critical sections at once.
C7_MutualExclusion ==
    \A p, q \in Procs :
        p # q => /\ ~(InCriticalSection(p) /\ InCriticalSection(q))
                 /\ ~(p \in holders /\ q \in holders)

\* one activation is in its critical section while another waits in flock()
C7_Witness ==
    \E p, q \in Procs :
        p # q /\ InCriticalSection(p) /\ p \in holders /\ pc[q] \in EnterPcs

\* C8: an activation that is not in a critical section (it has left it, by
\* return or by a raised error, or has terminated) does not hold the lock.
C8_LockReleased ==
    \A p \in Procs : p \in holders => InCriticalSection(p)

\* an error was raised in a with body, under the lock, and the activation has
\* gone on
C8_Witness ==
    \E p \in Procs : err[p] \in LockedPcs /\ ~InCriticalSection(p)

\* the record that decides p's admission check: the line qualifies when it is
\* a record, matches the incoming identity and is younger than the window
Qualifies(p, line) ==
    Matches(p, line) /\ Young(line, current_time[p])

\* index of the first qualifying line among those check_duplicate read, or 0
DecidingIndex(p) ==
    LET ls == readlines(snap[p])
        Q == {i \in 1..Len(ls) : Qualifies(p, ls[i])}
    IN IF Q = {} THEN 0 ELSE CHOOSE i \in Q : \A j \in Q : i <= j

DecidingStatus(p) == Parts(readlines(snap[p])[DecidingIndex(p)])[5]

\* the decision the claim fixes for p
ExpectedResponse(p) ==
    IF DecidingIndex(p) = 0 THEN "accept"
    ELSE IF DecidingStatus(p) \in {<<"SUCCESS">>, <<"PENDING">>} THEN "reject"
    ELSE IF DecidingStatus(p) = <<"FAILED">> THEN "accept"
    ELSE "reject"

\* p has scanned the lines it read and taken its decision
Decided(p) ==
    /\ kind[p] = "pre" /\ scanned[p]
    /\ pc[p] \in {"block", "notify", "add_a", "add_write", "add_close", "done"}

\* p's decision, while it is carried out
Rejecting(p) == pc[p] \in {"block", "notify"} \/ resp[p] = "reject"

\* C9: the admission check's decision is fixed by the first line, in file
\* order, that matches the incoming identity and is younger than the window:
\* SUCCESS or PENDING gives reject, FAILED accept, any other status reject;
\* with no such line the decision is accept.
C9_FirstQualifyingDecides ==
    \A p \in Procs :
        Decided(p) =>
            /\ Rejecting(p) <=> (ExpectedResponse(p) = "reject")
            /\ pc[p] = "done" => resp[p] = ExpectedResponse(p)

\* an admission check accepted on a FAILED record that stands second among the
\* lines read, further lines following it
C9_Witness ==
    \E p \in Procs :
        /\ Decided(p) /\ pc[p] = "done" /\ resp[p] = "accept"
        /\ DecidingIndex(p) = 2
        /\ DecidingStatus(p) = <<"FAILED">>

\* p's scan comes upon a PENDING record younger than the window that carries
\* p's own non-empty duplicate key, duplicate-key matching being enabled: the
\* record is among the lines read and the scan has not returned on a FAILED
\* match before it
FoundPendingSameKey(p) ==
    LET ls == readlines(snap[p]) IN
    /\ cfg.use_duplicate_key
    /\ env[p].duplicate_key # <<>>
    /\ \E i \in 1..Len(ls) :
          /\ HasStatus(ls[i], "PENDING")
          /\ Young(ls[i], current_time[p])
          /\ Parts(ls[i])[4] = env[p].duplicate_key
          /\ \A j \in 1..(i - 1) :
                ~(Qualifies(p, ls[j]) /\ HasStatus(ls[j], "FAILED"))

\* C10: an admission check that finds a PENDING record younger than the
\* window with its own non-empty duplicate key (duplicate-key matching
\* enabled) emits reject; and an admission check that rejects appends
\* nothing: the history file stays as its expiry sweep left it, which is as
\* check_duplicate read it.
C10_RejectAppendsNothing ==
    \A p \in Procs :
        Decided(p) =>
            /\ FoundPendingSameKey(p) => Rejecting(p)
            /\ Rejecting(p) => store = snap[p]

\* an admission check has rejected on a PENDING record with its duplicate key
C10_Witness ==
    \E p \in Procs :
        /\ Decided(p) /\ pc[p] = "done" /\ resp[p] = "reject"
        /\ FoundPendingSameKey(p)
        /\ store = snap[p]

\* p took the matching path (its category is not ignored), read the file in
\* check_duplicate, admitted and has run to its end without an I/O error
AdmittedByScan(p) ==
    /\ kind[p] = "pre" /\ pc[p] = "done" /\ resp[p] = "accept"
    /\ scanned[p] /\ faults = 0

\* C11: an admission check that admits through the matching path (no
\* qualifying match, or the first qualifying match is FAILED) appends exactly
\* one record, at the end of the file, with the fields (current time,
\* category, name, duplicate key, PENDING); every line that survived the
\* sweep, a matched FAILED record included, stays unchanged and in its order.
\* (RecordOf is the text written for those fields.)
C11_AdmitAppendsOneRecord ==
    \A p \in Procs :
        AdmittedByScan(p) =>
            /\ ExpectedResponse(p) = "accept"
            /\ store = snap[p] \o RecordOf(p)
            /\ StoreLines = readlines(snap[p]) \o <<RecordOf(p)>>

\* an admission check admitted on a matched FAILED record, which is still in
\* the file, before the new PENDING record
C11_Witness ==
    \E p \in Procs :
        /\ AdmittedByScan(p)
        /\ DecidingIndex(p) > 0
        /\ DecidingStatus(p) = <<"FAILED">>
        /\ Len(StoreLines) = Len(readlines(snap[p])) + 1
        /\ StoreLines[DecidingIndex(p)] = readlines(snap[p])[DecidingIndex(p)]

\* C12: every admission check that emits accept, one admitted directly by the
\* category filter included, has appended a new PENDING record for its
\* download to the history file before it exits.
C12_AcceptHasRecord ==
    \A p \in Procs :
        (kind[p] = "pre" /\ pc[p] = "done" /\ resp[p] = "accept" /\ faults = 0)
        => InStore(RecordOf(p))

\* C13: when the only record of the history file is a SUCCESS record younger
\* than the window whose name equals the incoming name, the admission check
\* emits reject and goes on to downstream blocklisting (duplicate_status is
\* SUCCESS), whatever the incoming and the stored duplicate keys are.
C13_SuccessByNameRejected ==
    \A p \in Procs :
        LET ls == readlines(snap[p]) IN
        ( /\ kind[p] = "pre" /\ pc[p] = "done" /\ scanned[p] /\ faults = 0
          /\ Len(ls) = 1
          /\ HasStatus(ls[1], "SUCCESS")
          /\ Len(Parts(ls[1])) = 5
          /\ Young(ls[1], current_time[p])
          /\ Parts(ls[1])[3] = env[p].nzb_name )
        => /\ resp[p] = "reject"
           /\ dup[p].set /\ dup[p].status = <<"SUCCESS">>

\* the completion report p takes the line for a PENDING record of its download
PendingMatch(p, line) ==
    /\ IsRecord(line)
    /\ Parts(line)[5] = <<"PENDING">>
    /\ _is_match(env[p], cfg.use_duplicate_key, Parts(line)[3], Parts(line)[4]) # NoMatch

\* index of the first such line among those update_status read, or 0
TargetIndex(p) ==
    LET ls == readlines(snap[p])
        T == {i \in 1..Len(ls) : PendingMatch(p, ls[i])}
    IN IF T = {} THEN 0 ELSE CHOOSE i \in T : \A j \in T : i <= j

\* the completion report p has run update_status to its end without an I/O
\* error
Reported(p) ==
    /\ kind[p] = "post" /\ pc[p] = "done" /\ ~Ignored(env[p]) /\ faults = 0

\* C14: a completion report changes at most one line of the history file,
\* the first line in file order that is PENDING and matches the finished
\* download: it rewrites that line's status, to SUCCESS when the completion
\* code is 0 and to FAILED otherwise, and leaves every other line identical
\* and in the same order, even when further PENDING records match.
C14_OneLineTransitioned ==
    \A p \in Procs :
        LET before == readlines(snap[p])
            t == TargetIndex(p)
        IN
        Reported(p) =>
            /\ Len(StoreLines) = Len(before)
            /\ \A i \in 1..Len(before) : i # t => StoreLines[i] = before[i]
            /\ updated[p] <=> t > 0
            /\ t > 0 =>
                 /\ IsRecord(StoreLines[t])
                 /\ SubSeq(Parts(StoreLines[t]), 1, 4) = SubSeq(Parts(before[t]), 1, 4)
                 /\ Parts(StoreLines[t])[5] =
                       (IF env[p].status = "0" THEN <<"SUCCESS">> ELSE <<"FAILED">>)

\* a failed download's report has transitioned the first of two matching
\* PENDING records and left the second one PENDING
C14_Witness ==
    \E p \in Procs :
        /\ Reported(p) /\ updated[p] /\ env[p].status = "1"
        /\ HasStatus(StoreLines[TargetIndex(p)], "FAILED")
        /\ \E j \in (TargetIndex(p) + 1)..Len(StoreLines) :
              PendingMatch(p, readlines(snap[p])[j]) /\ PendingMatch(p, StoreLines[j])

\* C15: when no PENDING record matches the finished download, the completion
\* report leaves the content of the history file as it was before the
\* activation, adds no record, reports not-found (update_status returns
\* False) and exits with code 0.
C15_NotFoundLeavesStore ==
    \A p \in Procs :
        (Reported(p) /\ TargetIndex(p) = 0) =>
            /\ store = snap[p]
            /\ ~updated[p]
            /\ code[p] = 0

\* a report found its download's record already SUCCESS, nothing PENDING
C15_Witness ==
    \E p \in Procs :
        /\ Reported(p) /\ TargetIndex(p) = 0 /\ ~updated[p]
        /\ \E i \in 1..Len(StoreLines) :
              /\ HasStatus(StoreLines[i], "SUCCESS")
              /\ Parts(StoreLines[i])[3] = env[p].nzb_name

\* the four fields that are set when a record is created
Identity(line) == SubSeq(Parts(line), 1, 4)

\* C16: in every execution, overlapping activations included, a record's
\* status changes only from PENDING to SUCCESS or FAILED and at most once:
\* once a completion report has transitioned a record, the history file
\* never holds that record as PENDING again or with the other final status.
C16_StatusFinal ==
    \A p \in Procs :
        (Reported(p) /\ updated[p] /\ TargetIndex(p) > 0) =>
            \A i \in 1..Len(StoreLines) :
                ( /\ IsRecord(StoreLines[i])
                  /\ Identity(StoreLines[i]) =
                        Identity(readlines(snap[p])[TargetIndex(p)]) )
                => Parts(StoreLines[i])[5] = FinalStatus(env[p])

\* the expiry sweep of p has rewritten the file without error and p has not
\* gone on yet: the lines it read and did not write back
SweptBy(p) ==
    IF kind[p] = "pre" /\ pc[p] = "check_r" /\ faults = 0
    THEN {readlines(snap[p])[i] : i \in
            {j \in 1..Len(readlines(snap[p])) :
                /\ IsRecord(readlines(snap[p])[j])
                /\ ~KeepLine(readlines(snap[p])[j], TimeWindowSeconds, current_time[p])}}
    ELSE {}

\* C17: once an expiry sweep has removed a record from the history file, no
\* later content of the file holds that record again, under every
\* interleaving of overlapping admission checks and completion reports.
C17_NoResurrection ==
    \A p \in Procs :
        \A gone \in SweptBy(p) :
            \A i \in 1..Len(StoreLines) :
                IsRecord(StoreLines[i]) => Identity(StoreLines[i]) # Identity(gone)

\* the identities under which a record can have been created: those of the
\* records the first activation found, and those an admission check started
\* with one of the given environments at one of the given times writes
CreatedIdentities(envs, times) ==
    {Identity(readlines(seed)[i]) : i \in 1..Len(readlines(seed))}
    \cup {<<IntToStr(t), e.category, e.nzb_name, e.duplicate_key>> :
            e \in envs, t \in times}

\* C18: in every reachable content of the history file, every record's
\* timestamp, category, name and duplicate key are the values written when
\* the admission check created the record; a rewrite changes the status
\* field and nothing else.
C18_FieldsAsCreated ==
    \A i \in 1..Len(StoreLines) :
        IsRecord(StoreLines[i]) =>
            Identity(StoreLines[i]) \in
                CreatedIdentities(ConcPre, RaceEpoch..(RaceEpoch + TimeWindowSeconds))

\* the expiry sweep of p has rewritten the file, without an I/O error, and p
\* has not gone on to check_duplicate yet
Swept(p) == kind[p] = "pre" /\ pc[p] = "check_r" /\ faults = 0

\* C19: after an expiry sweep at time now with window W the history file
\* consists of exactly those prior lines that parse as records (five fields,
\* integer timestamp) with now - timestamp < W, unchanged and in their
\* order; a record with now - timestamp >= W is absent whatever its status.
C19_SweepKeepsYoungRecords ==
    \A p \in Procs :
        Swept(p) =>
            StoreLines = SelectSeq(readlines(snap[p]),
                                   LAMBDA l : Young(l, current_time[p]))

\* C20: an expiry sweep discards every malformed line, a line with fewer
\* than five fields or a timestamp that is no integer: no such line is in
\* the history file after a sweep.
C20_SweepDropsMalformed ==
    \A p \in Procs :
        Swept(p) =>
            \A i \in 1..Len(StoreLines) :
                IsRecord(StoreLines[i]) /\ IsInt(Parts(StoreLines[i])[1])

\* C21: a completion report's rewrite keeps verbatim and in its position
\* every line that does not split into exactly five fields (fewer, or more):
\* such a line is never dropped, never changed, never taken for the record
\* to transition.
C21_OtherLinesVerbatim ==
    \A p \in Procs :
        LET before == readlines(snap[p]) IN
        Reported(p) =>
            /\ Len(StoreLines) = Len(before)
            /\ \A i \in 1..Len(before) :
                  Len(Parts(before[i])) # 5 => StoreLines[i] = before[i]

\* the file a sweep at time t leaves of the file f
SweepOf(f, t) == Flatten(CleanLines(readlines(f), TimeWindowSeconds, t))

\* C22: for every content of the history file and every time now, a second
\* expiry sweep with the same now leaves the file as the first one left it;
\* the sweep of an empty file leaves it empty.
C22_SweepIdempotent ==
    \A p \in Procs :
        Swept(p) =>
            /\ store = SweepOf(snap[p], current_time[p])
            /\ SweepOf(store, current_time[p]) = store
            /\ snap[p] = <<>> => store = <<>>

\* a sweep has dropped one of two lines and kept the other
C22_Witness ==
    \E p \in Procs :
        /\ Swept(p)
        /\ Len(readlines(snap[p])) = 2
        /\ Len(StoreLines) = 1
        /\ SweepOf(store, current_time[p]) = store

\* C23: for every record (category, name and duplicate key any strings), the
\* line the admission check writes, split as the readers split it
\* (line.strip().split('|')), gives back the five field values in their
\* positions.
C23_LineRoundTrip ==
    \A p \in Procs :
        AdmittedByScan(p) =>
            /\ StoreLines # <<>>
            /\ Parts(StoreLines[Len(StoreLines)]) =
                  <<IntToStr(current_time[p]), env[p].category, env[p].nzb_name,
                    env[p].duplicate_key, <<"PENDING">>>>

\* the positions run() reaches only after its call of clean_old_entries
AfterSweep(l) ==
    l \in {"check_r", "check_read", "decide", "block", "notify",
           "add_a", "add_write", "add_close"}

\* C24: every admission check, whatever the category of its download, runs
\* the expiry sweep, once, before any matching and before it emits accept or
\* reject: a response is emitted only from a position after the sweep.
C24_SweepBeforeDecision ==
    [][\A p \in Procs :
          (kind'[p] = "pre" /\ resp[p] = "none" /\ resp'[p] # "none")
          => AfterSweep(pc[p])]_vars

\* among the lines p's check_duplicate read, a record that matches p's
\* download and is as old as the window or older
StaleMatchRead(p) ==
    \E i \in 1..Len(readlines(snap[p])) :
        LET line == readlines(snap[p])[i] IN
        /\ Matches(p, line)
        /\ IsInt(Parts(line)[1])
        /\ current_time[p] - IntVal(Parts(line)[1]) >= TimeWindowSeconds

\* C25: an admission check never emits reject because of a record whose age
\* is at or above the window, also when the record is there at scan time
\* because an overlapping activation wrote it back after the sweep: the scan
\* passes over it, and a reject rests on a matching record younger than the
\* window.
C25_StaleRecordPassedOver ==
    \A p \in Procs :
        Decided(p) =>
            /\ Rejecting(p) =>
                 \E i \in 1..Len(readlines(snap[p])) :
                     /\ Matches(p, readlines(snap[p])[i])
                     /\ Young(readlines(snap[p])[i], current_time[p])
                     /\ ~HasStatus(readlines(snap[p])[i], "FAILED")
            /\ (StaleMatchRead(p) /\ DecidingIndex(p) = 0) => ~Rejecting(p)

\* an admission check whose sweep had run without error found the expired
\* record of its download in the file again, and admitted
C25_Witness ==
    \E p \in Procs :
        /\ Decided(p) /\ pc[p] = "done" /\ resp[p] = "accept"
        /\ faults = 0
        /\ StaleMatchRead(p)

\* C26: every admission check that has emitted a response, accept or reject,
\* exits with code 0; the exit code 1 occurs only where no response was
\* emitted.
C26_ResponseThenNeutralExit ==
    \A p \in Procs :
        (kind[p] = "pre" /\ pc[p] = "done") =>
            /\ resp[p] # "none" => code[p] = 0
            /\ code[p] = 1 => resp[p] = "none"

\* the send of p's block notification failed: the notifier returned False or
\* raised an error
SendFailed(p) ==
    /\ kind[p] = "pre" /\ pc[p] = "done"
    /\ notified[p].result \in {"failed", "raised"}

\* C27: when the notifier's send fails during a block, by returning failure
\* or by raising an error, the failure is not propagated: the admission check
\* has emitted its reject and exits with code 0.
C27_NotifierFailureSwallowed ==
    \A p \in Procs : SendFailed(p) => (resp[p] = "reject" /\ code[p] = 0)

\* every downstream blocklist call p made failed
AllCallsFailed(p) ==
    /\ kind[p] = "pre"
    /\ arr_calls[p] # <<>>
    /\ \A i \in 1..Len(arr_calls[p]) : arr_calls[p][i].result = "failed"

\* C28: failed downstream blocklist calls neither change nor abort the
\* decision: reject was emitted before any call was made, the activation goes
\* on to the block notification, no blocked instance is recorded or notified,
\* and the exit code is 0 (the notifier itself not raising, which is C27's
\* subject).
C28_FailedDownstreamDegrades ==
    \A p \in Procs :
        /\ arr_calls[p] # <<>> => (resp[p] = "reject" /\ pc[p] \in {"notify", "done"})
        /\ AllCallsFailed(p) =>
             /\ blocked_instance[p] = "None"
             /\ (pc[p] = "done" /\ notified[p].result \in {"sent", "failed"}) =>
                    (notified[p].blocked_instance = "None" /\ code[p] = 0)

\* both the Radarr and the Sonarr call failed, and the notification was sent
C28_Witness ==
    \E p \in Procs :
        /\ AllCallsFailed(p) /\ Len(arr_calls[p]) = 2
        /\ pc[p] = "done" /\ resp[p] = "reject" /\ code[p] = 0
        /\ notified[p] = [result |-> "sent", blocked_instance |-> "None"]

\* p's rewrite of the store (the sweep's or the completion report's) has just
\* failed with an OSError, after p had read the store's content into snap[p]
RewriteFailed(p) ==
    \/ pc[p] = "check_r" /\ err[p] \in {"clean_w", "clean_wlock", "clean_write", "clean_close"}
    \/ pc[p] = "done" /\ err[p] \in {"upd_w", "upd_wlock", "upd_write", "upd_close"}

\* C29: a store step that fails (open, lock or I/O error) has no effect: the
\* store holds what it held before the step, never a partial result such as
\* a truncated file, and the activation does not exit with a failure code.
C29_FailedStepNoEffect ==
    \A p \in Procs :
        RewriteFailed(p) => (store = snap[p] /\ code[p] # 1)

\* The five rules of _is_match, each on its own.
\* Method 1: duplicate-key matching enabled, both keys non-empty and equal
Rule1(e, use_duplicate_key, history_key) ==
    use_duplicate_key /\ e.duplicate_key # <<>> /\ history_key # <<>>
    /\ e.duplicate_key = history_key

\* Method 2: both names non-empty and equal
Rule2(e, history_name) ==
    e.nzb_name # <<>> /\ history_name # <<>> /\ e.nzb_name = history_name

\* Method 3: both names non-empty, and non-empty and equal once normalized
Rule3(e, history_name) ==
    /\ e.nzb_name # <<>> /\ history_name # <<>>
    /\ _normalize_name(e.nzb_name) # <<>>
    /\ _normalize_name(e.nzb_name) = _normalize_name(history_name)

\* Method 4: the alternative file name is non-empty and equals the record's name
Rule4(e, history_name) ==
    e.filename # <<>> /\ history_name # <<>> /\ e.filename = history_name

\* Method 5: both names non-empty and one contains the other
Rule5(e, history_name) ==
    /\ e.nzb_name # <<>> /\ history_name # <<>>
    /\ \/ Contains(history_name, e.nzb_name)
       \/ Contains(e.nzb_name, history_name)

\* the completion report p has read the history file
HasReadForUpdate(p) ==
    /\ kind[p] = "post"
    /\ pc[p] \in {"upd_w", "upd_wlock", "upd_write", "upd_close", "done"}

\* C30: for a candidate record, the completion report's matcher reports a
\* match exactly when one of the five rules holds, and the method it records
\* is the first satisfied rule in the order duplicate_key_exact, name_exact,
\* name_normalized, filename_exact, name_partial; duplicate_key_exact is
\* recorded only with duplicate-key matching enabled and both keys non-empty
\* and equal.
C30_FirstSatisfiedRule ==
    \A p \in Procs :
        HasReadForUpdate(p) =>
            \A i \in 1..Len(readlines(snap[p])) :
                LET line == readlines(snap[p])[i] IN
                IsRecord(line) =>
                    LET e  == env[p]
                        hn == Parts(line)[3]
                        hk == Parts(line)[4]
                        r1 == Rule1(e, cfg.use_duplicate_key, hk)
                        r2 == Rule2(e, hn)
                        r3 == Rule3(e, hn)
                        r4 == Rule4(e, hn)
                        r5 == Rule5(e, hn)
                        m  == _is_match(e, cfg.use_duplicate_key, hn, hk)
                    IN /\ (m # NoMatch) <=> (r1 \/ r2 \/ r3 \/ r4 \/ r5)
                       /\ (m = "duplicate_key_exact") <=> r1
                       /\ (m = "name_exact") <=> (~r1 /\ r2)
                       /\ (m = "name_normalized") <=> (~r1 /\ ~r2 /\ r3)
                       /\ (m = "filename_exact") <=> (~r1 /\ ~r2 /\ ~r3 /\ r4)
                       /\ (m = "name_partial") <=> (~r1 /\ ~r2 /\ ~r3 /\ ~r4 /\ r5)
                       /\ m = "duplicate_key_exact" =>
                             (cfg.use_duplicate_key /\ e.duplicate_key # <<>>
                              /\ hk = e.duplicate_key)

\* a completion report transitioned a record it matched by the alternative
\* file name, while the lower-priority partial-name rule held too
C30_Witness ==
    \E p \in Procs :
        /\ Reported(p) /\ TargetIndex(p) > 0
        /\ LET line == readlines(snap[p])[TargetIndex(p)] IN
           /\ _is_match(env[p], cfg.use_duplicate_key, Parts(line)[3], Parts(line)[4])
                 = "filename_exact"
           /\ Rule5(env[p], Parts(line)[3])

\* C31: for an incoming identity without an alternative file name and any
\* record, the admission check's matcher and the completion report's matcher
\* agree on whether the record matches (so the admission check matches too
\* when only the normalized names are equal or one name contains the other).
C31_MatchersAgree ==
    \A p \in Procs :
        (Decided(p) /\ env[p].filename = <<>>) =>
            \A i \in 1..Len(readlines(snap[p])) :
                LET line == readlines(snap[p])[i] IN
                IsRecord(line) =>
                    (Matches(p, line) <=>
                         _is_match(env[p], cfg.use_duplicate_key,
                                   Parts(line)[3], Parts(line)[4]) # NoMatch)

\* the age, at the start of activation p, of a record with an integer timestamp
AgeAt(p, line) == current_time[p] - IntVal(Parts(line)[1])

\* C32: a completion report transitions the first matching PENDING record
\* whatever its age, also when the record is older than the window and no
\* sweep has removed it; a record whose status is not PENDING is never
\* transitioned: its line stays as it was.
C32_PendingOfAnyAgeOnly ==
    \A p \in Procs :
        LET before == readlines(snap[p]) IN
        Reported(p) =>
            /\ Len(StoreLines) = Len(before)
            /\ \A i \in 1..Len(before) :
                 /\ (PendingMatch(p, before[i])
                     /\ \A j \in 1..(i - 1) : ~PendingMatch(p, before[j]))
                    => /\ IsRecord(StoreLines[i])
                       /\ Parts(StoreLines[i])[5] \in {<<"SUCCESS">>, <<"FAILED">>}
                       /\ updated[p]
                 /\ (IsRecord(before[i]) /\ Parts(before[i])[5] # <<"PENDING">>)
                    => StoreLines[i] = before[i]

\* a report transitioned a PENDING record that was as old as the window, next
\* to a matching record that was not PENDING and stayed as it was
C32_Witness ==
    \E p \in Procs :
        /\ Reported(p) /\ updated[p] /\ TargetIndex(p) > 0
        /\ LET line == readlines(snap[p])[TargetIndex(p)] IN
           /\ IsInt(Parts(line)[1])
           /\ AgeAt(p, line) >= TimeWindowSeconds
        /\ Parts(StoreLines[TargetIndex(p)])[5] \in {<<"SUCCESS">>, <<"FAILED">>}
        /\ \E j \in 1..Len(StoreLines) :
              /\ IsRecord(readlines(snap[p])[j])
              /\ Parts(readlines(snap[p])[j])[5] \in {<<"SUCCESS">>, <<"DONE">>}
              /\ _is_match(env[p], cfg.use_duplicate_key, Parts(StoreLines[j])[3],
                           Parts(StoreLines[j])[4]) # NoMatch

\* the category of the completion report e is in the ignore list, or is
\* empty while ignore_no_category is set
SkipsUpdate(e) ==
    \/ e.category # <<>> /\ e.category \in cfg.ignored_categories
    \/ e.category = <<>> /\ cfg.ignore_no_category

\* C33: a completion report whose category is ignored, or empty with
\* ignore_no_category set, is at no store step: it goes from its start to its
\* exit with code 0, has read nothing and updated nothing, and its step leaves
\* the history file as it is, also when the file holds a PENDING record of
\* its download.
C33_IgnoredReportTouchesNothing ==
    [][\A p \in Procs :
          (kind'[p] = "post" /\ SkipsUpdate(env'[p])) =>
              /\ pc'[p] = "done"
              /\ code'[p] = 0
              /\ snap'[p] = <<>>
              /\ ~updated'[p]
              /\ pc'[p] # pc[p] => (store' = store /\ holders' = holders)]_vars

\* a report of an ignored category has exited while the history file holds
\* the PENDING record its download would match
C33_Witness ==
    \E p \in Procs :
        /\ kind[p] = "post" /\ pc[p] = "done" /\ code[p] = 0
        /\ env[p].category # <<>> /\ SkipsUpdate(env[p])
        /\ \E i \in 1..Len(StoreLines) : PendingMatch(p, StoreLines[i])

\* the downstream calls of p whose result is success
BlockedCalls(p) ==
    {i \in 1..Len(arr_calls[p]) : arr_calls[p][i].result = "blocked"}

\* C34: downstream blocklisting is attempted only by an admission check that
\* rejects on a matched record of status SUCCESS, never on a PENDING or
\* unknown-status reject and never on accept; Radarr is tried first, Sonarr
\* only when no Radarr attempt succeeded, and at most one instance is
\* recorded as the place of blocking.
C34_BlocklistOnlyOnSuccessReject ==
    \A p \in Procs :
        /\ arr_calls[p] # <<>> =>
             /\ kind[p] = "pre" /\ resp[p] = "reject"
             /\ DecidingIndex(p) > 0
             /\ DecidingStatus(p) = <<"SUCCESS">>
        /\ Len(arr_calls[p]) <= 2
        /\ \A i \in 1..Len(arr_calls[p]) :
             /\ arr_calls[p][i].app = "Radarr" => i = 1
             /\ arr_calls[p][i].app = "Sonarr" =>
                  \A j \in 1..Len(arr_calls[p]) :
                      arr_calls[p][j].app = "Radarr" =>
                          (j < i /\ arr_calls[p][j].result # "blocked")
        /\ BlockedCalls(p) = {} => blocked_instance[p] = "None"
        /\ \A i \in BlockedCalls(p) :
             /\ blocked_instance[p] = arr_calls[p][i].app
             /\ BlockedCalls(p) = {i}

\* the Radarr attempt failed, the Sonarr attempt succeeded and is recorded
C34_Witness ==
    \E p \in Procs :
        /\ pc[p] = "done" /\ resp[p] = "reject"
        /\ Len(arr_calls[p]) = 2
        /\ arr_calls[p][1].app = "Radarr" /\ arr_calls[p][1].result = "failed"
        /\ arr_calls[p][2].app = "Sonarr" /\ arr_calls[p][2].result = "blocked"
        /\ blocked_instance[p] = "Sonarr"

\* the order in which block_in_arr is to try its strategies
StrategyOrder == <<"since", "paginated", "queue">>

\* C35: a blocklist attempt against one instance tries the newest-history
\* lookup first; a strategy that fails with an error or finds nothing is
\* followed by the next one (paginated history scan, then queue-based
\* removal); the attempt stops at the first strategy that succeeds and
\* reports failure only after all three have been tried.
C35_StrategiesFallBackInOrder ==
    \A p \in Procs :
        \A c \in 1..Len(arr_calls[p]) :
            LET call == arr_calls[p][c]
                t == call.tried
            IN /\ Len(t) \in 1..3
               /\ \A i \in 1..Len(t) : t[i].strategy = StrategyOrder[i]
               /\ \A i \in 1..Len(t) :
                    /\ t[i].outcome = "blocked" => (i = Len(t) /\ call.result = "blocked")
                    /\ (t[i].outcome \in {"error", "nothing"} /\ i < 3) => Len(t) > i
               /\ call.result = "failed" => Len(t) = 3

\* C36: a completion report that has transitioned a record to SUCCESS or
\* FAILED has, when it exits, emitted a notification through the notifier.
C36_UpdateNotified ==
    \A p \in Procs :
        (Reported(p) /\ updated[p]) => notified[p].result # "none"

\* C37: with finitely many admission checks and completion reports running
\* concurrently on one history file, under fair scheduling every activation
\* that requests the lock eventually holds it (unless flock itself raised an
\* error at that step), and every started activation eventually terminates:
\* no activation waits for the lock forever.
C37_LockGrantedAndTerminates ==
    \A p \in Procs :
        /\ \A l \in EnterPcs :
             (pc[p] = l) ~> ((p \in holders /\ pc[p] = AfterEnter(l)) \/ err[p] = l)
        /\ (pc[p] # "idle") ~> (pc[p] = "done")

\* with no further activation or error to come, one activation waits in
\* flock() for the lock another one holds
C37_Witness ==
    \E p, q \in Procs :
        /\ p # q /\ runs = ConcRuns /\ faults = MaxFaults
        /\ pc[p] \in EnterPcs /\ p \notin holders
        /\ q \in holders

\* the PENDING records in the history file that p's admission check matches
PendingFor(p) ==
    {i \in 1..Len(StoreLines) :
        Matches(p, StoreLines[i]) /\ HasStatus(StoreLines[i], "PENDING")}

\* C38: two admission checks for the same name and duplicate key run
\* concurrently, without an I/O error, on a history file that held no
\* matching record: at most one of them has emitted accept, and after both
\* have ended the file holds at most one PENDING record for that identity.
C38_OneAcceptPerIdentity ==
    \A p, q \in Procs :
        ( /\ p # q
          /\ kind[p] = "pre" /\ kind[q] = "pre"
          /\ pc[p] = "done" /\ pc[q] = "done"
          /\ faults = 0
          /\ ~Ignored(env[p])
          /\ env[p].nzb_name = env[q].nzb_name
          /\ env[p].duplicate_key = env[q].duplicate_key
          /\ \A i \in 1..Len(readlines(seed)) : ~Matches(p, readlines(seed)[i]) )
        => /\ ~(resp[p] = "accept" /\ resp[q] = "accept")
           /\ Cardinality(PendingFor(p)) <= 1

\* no other activation is under way
OthersAtRest(p) ==
    \A q \in Procs \ {p} : pc[q] \in {"idle", "done"}

\* C39: once an admission check has accepted a download and appended its
\* PENDING record, the record is in the history file, as PENDING or with its
\* final status, as long as its age is below the window, whatever completion
\* reports and admission checks of other downloads ran at the same time.
C39_AdmittedRecordStays ==
    \A p \in Procs :
        ( /\ kind[p] = "pre" /\ pc[p] = "done" /\ resp[p] = "accept"
          /\ ~Ignored(env[p])
          /\ faults = 0
          /\ OthersAtRest(p)
          /\ \A q \in Procs \ {p} : env[q].nzb_name # env[p].nzb_name
          /\ now - current_time[p] < TimeWindowSeconds )
        => \E i \in 1..Len(StoreLines) :
              /\ IsRecord(StoreLines[i])
              /\ Identity(StoreLines[i]) = Identity(RecordOf(p))
              /\ Parts(StoreLines[i])[5] \in {<<"PENDING">>, <<"SUCCESS">>, <<"FAILED">>}

=============================================================================
